---- MODULE Spec2Model ----
(***************************************************************************)
(* Model of scripts/calibrationFromEGT.py: the calibration class           *)
(* (thresholdFileName, run), main and validate_args.                       *)
(*                                                                         *)
(* Strings are sequences of one-character strings, so that splitting,      *)
(* joining and padding are computed as the Python code computes them.      *)
(* The three stage commands are external programs: their exit status is a  *)
(* free choice, the files their shell redirections create are determined   *)
(* by the command line the code builds.                                    *)
(***************************************************************************)
EXTENDS Integers, Sequences, FiniteSets, TLC

\* ------------------------------------------------------------------ bounds
\* largest --zstart / --ztotal value tried (0 is the invalid value)
MaxZStart == 2
MaxZTotal == 2
\* inputs of the file-name specification: chunks per path, largest Z score
MaxChunks == 3
MaxNameZ == 11

\* ----------------------------------------------------------------- strings
Digit(d) == <<"0", "1", "2", "3", "4", "5", "6", "7", "8", "9">>[d + 1]

RECURSIVE StrNat(_)
StrNat(n) == IF n < 10 THEN <<Digit(n)>>
             ELSE Append(StrNat(n \div 10), Digit(n % 10))

\* Python str() of an int
Str(n) == IF n < 0 THEN <<"-">> \o StrNat(-n) ELSE StrNat(n)

\* Python str.zfill: pad with zeros on the left, after a leading sign
RECURSIVE Zfill(_, _)
Zfill(s, w) ==
    IF Len(s) >= w THEN s
    ELSE IF Len(s) > 0 /\ s[1] \in {"-", "+"}
         THEN Zfill(<<s[1], "0">> \o Tail(s), w)
         ELSE Zfill(<<"0">> \o s, w)

\* re.split on a one-character pattern: the pieces between the separators
Split(s, c) ==
    LET F[n \in 0..Len(s)] ==
          IF n = 0 THEN << <<>> >>
          ELSE IF s[n] = c THEN Append(F[n - 1], <<>>)
               ELSE [F[n - 1] EXCEPT ![Len(F[n - 1])] = Append(@, s[n])]
    IN F[Len(s)]

\* sep.join(items)
Join(items, sep) ==
    LET F[n \in 0..Len(items)] ==
          IF n = 0 THEN <<>>
          ELSE IF n = 1 THEN items[1]
               ELSE F[n - 1] \o sep \o items[n]
    IN F[Len(items)]

\* list.pop(): the list without its last item
Pop(items) == SubSeq(items, 1, Len(items) - 1)

Last(items) == items[Len(items)]

ThresholdsPrefix == <<"t", "h", "r", "e", "s", "h", "o", "l", "d", "s", "_">>
ZTag == <<"_", "z">>
TxtSuffix == <<".", "t", "x", "t">>

\* the width str(zScore) is zero-filled to
ZWidth == 2

thresholdFileName(egtPath, zScore) ==
    LET egtName == Last(Split(egtPath, "/"))
        items == Pop(Split(egtName, "."))
        name == Join(items, <<".">>)
    IN ThresholdsPrefix \o name \o ZTag \o Zfill(Str(zScore), ZWidth) \o TxtSuffix

\* ------------------------------------------------------------ os.path
\* the working directory of the process
Cwd == <<"/", "w">>

\* posixpath.normpath
normpath(path) ==
    LET slashes == IF Len(path) > 0 /\ path[1] = "/"
                   THEN IF Len(path) > 1 /\ path[2] = "/"
                           /\ ~(Len(path) > 2 /\ path[3] = "/")
                        THEN <<"/", "/">> ELSE <<"/">>
                   ELSE <<>>
        comps == Split(path, "/")
        F[n \in 0..Len(comps)] ==
          IF n = 0 THEN <<>>
          ELSE LET comp == comps[n]
                   acc == F[n - 1]
               IN IF comp = <<>> \/ comp = <<".">> THEN acc
                  ELSE IF comp # <<".", ".">>
                          \/ (slashes = <<>> /\ acc = <<>>)
                          \/ (acc # <<>> /\ Last(acc) = <<".", ".">>)
                       THEN Append(acc, comp)
                       ELSE IF acc # <<>> THEN Pop(acc) ELSE acc
        joined == slashes \o Join(F[Len(comps)], <<"/">>)
    IN IF joined = <<>> THEN <<".">> ELSE joined

\* posixpath.abspath
abspath(path) ==
    IF Len(path) > 0 /\ path[1] = "/" THEN normpath(path)
    ELSE normpath(Cwd \o <<"/">> \o path)

\* ------------------------------------------------------------------ inputs
\* values of --egt
EgtArgs == { <<"d", "/", ".", ".", "/", "s", ".", "v", ".", "e">>,
             <<"/", "d", ".", "x", "/", "s">> }
\* value of --out
OutArg == <<"o", "/">>
\* what the output path is on disk
OutStates == {"missing", "file", "readonly", "ok"}
\* wait statuses os.system can return: exit 0, exit 1 (1 << 8)
Statuses == {0, 256}
\* names mkdtemp(prefix='zcall_') can draw
TmpPrefix == <<"/", "t", "m", "p", "/", "z", "c", "a", "l", "l", "_">>
DirNames == { TmpPrefix \o <<"a">>, TmpPrefix \o <<"b">>, TmpPrefix \o <<"c">> }

\* the pieces the paths of the file-name specification are built from
Chunks == { <<"/">>, <<".">>, <<"s">>, <<"_", "z", "0", "1">> }

RECURSIVE ChunkPaths(_)
ChunkPaths(n) ==
    IF n = 0 THEN { <<>> }
    ELSE LET shorter == ChunkPaths(n - 1)
         IN shorter \cup { p \o c : p \in shorter, c \in Chunks }

NamePaths == ChunkPaths(MaxChunks) \ { <<>> }
NameZs == 1..MaxNameZ

VARIABLES
    args,        \* the parsed command line: egt, out, zstart, ztotal, verbose
    env,         \* the file system facts validation reads, and the config file
    pc,          \* the program's position
    exception,   \* the exception that ended the process, or "none"
    egt, out, z, i,   \* main's locals
    calls,       \* the calls of calibration.run made so far, in order
    tempDir, meanSd, betas, thresholds, cmdList, commandsOK, k, status,
                 \* run's locals; k is the index of the current cmd
    ret,         \* what the last call of run returned
    dirs,        \* the temporary directories that exist
    files,       \* the files the stages have written
    executed,    \* the commands handed to os.system so far, in order
    stderr,      \* what was written to sys.stderr
    phase, log   \* two executions compared: which one runs, what the first did

vars == <<args, env, pc, exception, egt, out, z, i, calls, tempDir, meanSd,
          betas, thresholds, cmdList, commandsOK, k, status, ret, dirs,
          files, executed, stderr, phase, log>>

mainLocals == <<egt, out, z, i>>
runLocals == <<tempDir, meanSd, betas, thresholds, cmdList, commandsOK, k, status>>
world == <<dirs, files, executed>>
twin == <<phase, log>>

NoPath == <<>>

InitRest ==
    /\ exception = "none"
    /\ egt = NoPath /\ out = NoPath /\ z = 0 /\ i = 0
    /\ calls = <<>>
    /\ tempDir = NoPath /\ meanSd = NoPath /\ betas = NoPath /\ thresholds = NoPath
    /\ cmdList = <<>> /\ commandsOK = TRUE /\ k = 0 /\ status = 0
    /\ ret = "unset"
    /\ dirs = {} /\ files = {} /\ executed = <<>> /\ stderr = <<>>

\* one execution alone
InitAlone == phase = 0 /\ log = <<>>

\* ------------------------------------------------------------ file system
MeanSdName == <<"/", "m", "e", "a", "n", "_", "s", "d", ".", "t", "x", "t">>
BetasName == <<"/", "b", "e", "t", "a", "s", ".", "t", "x", "t">>
RErrorName == <<"/", "r", "_", "e", "r", "r", "o", "r", ".", "t", "x", "t">>

\* path lies inside directory dir
IsUnder(path, dir) ==
    /\ Len(path) > Len(dir) + 1
    /\ SubSeq(path, 1, Len(dir) + 1) = dir \o <<"/">>

\* the file at path is created or truncated by call number by
Written(fs, path, by) ==
    { f \in fs : f.path # path } \cup { [path |-> path, by |-> by] }

\* the files rm -Rf dir leaves when it succeeds
Removed(fs, dir) == { f \in fs : ~IsUnder(f.path, dir) }

Init ==
    /\ args \in [egt : EgtArgs, out : {OutArg}, zstart : 0..MaxZStart,
                 ztotal : 0..MaxZTotal, verbose : BOOLEAN]
    /\ env \in [egtReadable : BOOLEAN, outState : OutStates, configOK : BOOLEAN]
    /\ pc = "main"
    /\ InitRest
    /\ InitAlone

\* ---------------------------------------------------------- validate_args
\* mutant: the test of zstart is left out
ArgError_noZstart ==
    IF ~env.egtReadable THEN "OSError"
    ELSE IF env.outState \in {"missing", "file", "readonly"} THEN "OSError"
    ELSE IF args.ztotal < 1 THEN "ValueError"
    ELSE "none"

\* validate_args, lines 107-119
ArgError ==
    IF ~env.egtReadable THEN "OSError"
    ELSE IF env.outState \in {"missing", "file", "readonly"} THEN "OSError"
    ELSE IF args.ztotal < 1 \/ args.zstart < 1 THEN "ValueError"
    ELSE "none"

\* main, line 82: args = validate_args()
ValidateArgs ==
    /\ pc = "main"
    /\ exception' = ArgError
    /\ pc' = IF ArgError = "none" THEN "construct" ELSE "fatal"
    /\ UNCHANGED <<args, env, mainLocals, calls, runLocals, ret, world, stderr>>

\* main, lines 83-86: the paths are made absolute, cal = calibration()
Construct ==
    /\ pc = "construct"
    /\ egt' = abspath(args.egt)
    /\ out' = abspath(args.out)
    /\ z' = args.zstart
    /\ exception' = IF env.configOK THEN "none" ELSE "IOError"
    /\ pc' = IF env.configOK THEN "loop" ELSE "fatal"
    /\ UNCHANGED <<args, env, i, calls, runLocals, ret, world, stderr>>

\* mutant: the range runs one past its end
LoopContinues_offByOne(n, total) == n <= total

\* for i in range(args['ztotal']) goes round once more
LoopContinues(n, total) == n < total

\* main, lines 87-88: the loop head, and the call of cal.run
LoopIter ==
    /\ pc = "loop"
    /\ IF LoopContinues(i, args.ztotal)
       THEN /\ calls' = Append(calls, [egtPath |-> egt, zScore |-> z,
                                       outDir |-> out, verbose |-> args.verbose])
            /\ pc' = "run"
       ELSE /\ calls' = calls
            /\ pc' = "exit"
    /\ tempDir' = NoPath /\ meanSd' = NoPath /\ betas' = NoPath
    /\ thresholds' = NoPath /\ cmdList' = <<>> /\ commandsOK' = TRUE
    /\ k' = 0 /\ status' = 0
    /\ UNCHANGED <<args, env, exception, mainLocals, ret, world, stderr>>

\* the parameters of the running call of run
Frame == calls[Len(calls)]

\* run, lines 60-65: the three command lines
CmdList(egtPath, zScore, outDir, tmp, msd, bts, thr) ==
    << [prog |-> "findMeanSD.py", reads |-> <<egtPath>>, outArg |-> NoPath,
        Z |-> NoPath, stdout |-> msd, stderr |-> NoPath],
       [prog |-> "findBetas.r", reads |-> <<msd>>, outArg |-> bts,
        Z |-> NoPath, stdout |-> NoPath, stderr |-> tmp \o RErrorName],
       [prog |-> "findThresholds.py", reads |-> <<bts, egtPath>>, outArg |-> NoPath,
        Z |-> Str(zScore), stdout |-> outDir \o <<"/">> \o thr, stderr |-> NoPath] >>

\* what the code writes to sys.stderr, only when verbose
Say(verbose, lines) == IF verbose THEN stderr \o lines ELSE stderr

\* mutant: the message leaves out the directory
StartMessage_noPath(zScore, d) ==
    << [msg |-> "Calibrating zCall", info |-> Str(zScore)] >>

\* run, lines 54-55: the message that names the temporary directory
StartMessage(zScore, d) ==
    << [msg |-> "Calibrating zCall", info |-> Str(zScore)],
       [msg |-> "Writing temporary files to", info |-> d] >>

\* mutant: a fixed set of names, taken whether or not they exist
FreshNames_any(existing) == DirNames

\* run, line 52: mkdtemp creates a directory whose name does not exist yet
FreshNames(existing) == DirNames \ existing

\* mutant: the error is caught in the loop and the next Z score is run
OnMkdtempError_swallow == "returned"

\* mutant: the error is caught and mkdtemp is tried again
OnMkdtempError_retry == "run"

\* run, line 52: mkdtemp raises and nothing catches it, in run or in main
OnMkdtempError == "raised"

\* run, lines 51-66: the temporary directory, the paths, the command list
Mkdtemp ==
    /\ pc = "run"
    /\ \/ \E d \in FreshNames(dirs) :
            /\ tempDir' = d
            /\ dirs' = dirs \cup {d}
            /\ stderr' = Say(Frame.verbose, StartMessage(Frame.zScore, d))
            /\ meanSd' = d \o MeanSdName
            /\ betas' = d \o BetasName
            /\ thresholds' = thresholdFileName(Frame.egtPath, Frame.zScore)
            /\ cmdList' = CmdList(Frame.egtPath, Frame.zScore, Frame.outDir, d,
                                  meanSd', betas', thresholds')
            /\ commandsOK' = TRUE
            /\ k' = 1
            /\ pc' = "stage"
            /\ exception' = exception
       \/ /\ exception' = "OSError"
          /\ pc' = OnMkdtempError
          /\ UNCHANGED <<tempDir, meanSd, betas, thresholds, cmdList,
                         commandsOK, k, dirs, stderr>>
    /\ UNCHANGED <<args, env, mainLocals, calls, status, ret, files, executed>>

\* the status of a command os.system has not returned from
Running == -1

\* mutant: the command is started and not waited for
Launched_async == "stage"

\* run, line 69: os.system returns only when the command has exited
Launched == "wait"

\* the file a command's shell redirection opens before the program runs
Redirect(cmd) == IF cmd.stdout # NoPath THEN cmd.stdout ELSE cmd.stderr

\* run, lines 68-69: the command is echoed and handed to os.system
StageStart ==
    /\ pc = "stage"
    /\ LET cmd == cmdList[k]
       IN /\ stderr' = Say(Frame.verbose, << [msg |-> "cmd", info |-> cmd] >>)
          /\ executed' = Append(executed, [call |-> Len(calls), cmd |-> cmd,
                                        status |-> Running])
          /\ files' = Written(files, Redirect(cmd), Len(calls))
    /\ pc' = Launched
    /\ UNCHANGED <<args, env, exception, mainLocals, calls, runLocals, ret, dirs>>

\* mutant: a non-zero status counts only when verbose is set
NextCommandsOK_verboseOnly(ok, st) == IF st # 0 /\ Frame.verbose THEN FALSE ELSE ok

\* mutant: only the last command's status counts
NextCommandsOK_last(ok, st) == st = 0

\* run, lines 70-72: a non-zero status clears commandsOK
NextCommandsOK(ok, st) == IF st # 0 THEN FALSE ELSE ok

\* mutant: the loop over cmdList leaves out the last command
AfterStage_dropLast(n, cmds, st) == IF n < Len(cmds) - 1 THEN "stage" ELSE "cleanup"

\* mutant: the loop breaks at the first non-zero status
AfterStage_break(n, cmds, st) ==
    IF st # 0 THEN "cleanup" ELSE IF n < Len(cmds) THEN "stage" ELSE "cleanup"

\* mutant: a non-zero status is raised as an exception
AfterStage_raise(n, cmds, st) ==
    IF st # 0 THEN "raised" ELSE IF n < Len(cmds) THEN "stage" ELSE "cleanup"

\* for cmd in cmdList: the position after the command at index n has
\* returned st; the loop goes on whatever st is
AfterStage(n, cmds, st) == IF n < Len(cmds) THEN "stage" ELSE "cleanup"

\* run, lines 69-72: os.system returns the command's status
StageExit ==
    /\ pc = "wait"
    /\ \E st \in Statuses :
         \E wrote \in IF cmdList[k].outArg = NoPath THEN {FALSE}
                      ELSE IF st = 0 THEN {TRUE} ELSE BOOLEAN :
            /\ status' = st
            /\ executed' = [executed EXCEPT ![Len(executed)].status = st]
            /\ files' = IF wrote THEN Written(files, cmdList[k].outArg, Len(calls))
                        ELSE files
            /\ stderr' = Say(Frame.verbose /\ st # 0,
                             << [msg |-> "WARNING: Non-zero exit status.", info |-> NoPath] >>)
            /\ commandsOK' = NextCommandsOK(commandsOK, st)
            /\ pc' = AfterStage(k, cmdList, st)
    /\ k' = k + 1
    /\ UNCHANGED <<args, env, exception, mainLocals, calls, tempDir, meanSd,
                   betas, thresholds, cmdList, ret, dirs>>

\* run, line 73: the temporary directory is removed when this holds
ShouldRemove(ok) == ok

\* run has no return statement: every call returns None
ReturnValue(ok) == "None"

\* run, lines 73-78: rm -Rf when every command succeeded; its status is not read
Cleanup ==
    /\ pc = "cleanup"
    /\ IF ShouldRemove(commandsOK)
       THEN \E rmOK \in BOOLEAN :
              /\ dirs' = IF rmOK THEN dirs \ {tempDir} ELSE dirs
              /\ files' = IF rmOK THEN Removed(files, tempDir) ELSE files
              /\ stderr' = Say(Frame.verbose,
                     << [msg |-> "Cleaning up temporary directory.", info |-> NoPath],
                        [msg |-> "Finished.", info |-> NoPath] >>)
       ELSE /\ dirs' = dirs
            /\ files' = files
            /\ stderr' = Say(Frame.verbose,
                   << [msg |-> "Possible error, retaining temporary directory.", info |-> NoPath],
                      [msg |-> "Finished.", info |-> NoPath] >>)
    /\ ret' = ReturnValue(commandsOK)
    /\ pc' = "returned"
    /\ UNCHANGED <<args, env, exception, mainLocals, calls, runLocals, executed>>

\* main, line 89: z += 1, and the loop variable advances
LoopNext ==
    /\ pc = "returned"
    /\ z' = z + 1
    /\ i' = i + 1
    /\ pc' = "loop"
    /\ UNCHANGED <<args, env, exception, egt, out, calls, runLocals, ret, world, stderr>>

\* one execution, taking its steps alone
Next ==
    \/ ValidateArgs /\ UNCHANGED twin
    \/ Construct /\ UNCHANGED twin
    \/ LoopIter /\ UNCHANGED twin
    \/ Mkdtemp /\ UNCHANGED twin
    \/ StageStart /\ UNCHANGED twin
    \/ StageExit /\ UNCHANGED twin
    \/ Cleanup /\ UNCHANGED twin
    \/ LoopNext /\ UNCHANGED twin

Spec == Init /\ [][Next]_vars

\* ------------------------------------------- the file name, input by input
\* Every path of NamePaths as --egt and every Z score of NameZs as --zstart:
\* main makes the path absolute, run derives the file name from it.
InitName ==
    /\ args \in [egt : NamePaths, out : {OutArg}, zstart : NameZs,
                 ztotal : {1}, verbose : {FALSE}]
    /\ env = [egtReadable |-> TRUE, outState |-> "ok", configOK |-> TRUE]
    /\ pc = "name"
    /\ InitRest
    /\ InitAlone

\* main, lines 83-85
NameAbspath ==
    /\ pc = "name"
    /\ egt' = abspath(args.egt)
    /\ out' = abspath(args.out)
    /\ z' = args.zstart
    /\ pc' = "name_file"
    /\ UNCHANGED <<args, env, exception, i, calls, runLocals, ret, world, stderr>>

\* run, line 59
NameFile ==
    /\ pc = "name_file"
    /\ thresholds' = thresholdFileName(egt, z)
    /\ pc' = "named"
    /\ UNCHANGED <<args, env, exception, mainLocals, calls, tempDir, meanSd, betas,
                   cmdList, commandsOK, k, status, ret, world, stderr>>

NextName ==
    \/ NameAbspath /\ UNCHANGED twin
    \/ NameFile /\ UNCHANGED twin

NameSpec == InitName /\ [][NextName]_vars

\* ------------------------------------------------- what the claims speak of
\* the commands call number c has handed to os.system, in order
ExecOf(c) == SelectSeq(executed, LAMBDA e : e.call = c)

StageOrder == <<"findMeanSD.py", "findBetas.r", "findThresholds.py">>

Progs(es) == [n \in 1..Len(es) |-> es[n].cmd.prog]

IsPrefix(a, b) == Len(a) <= Len(b) /\ a = SubSeq(b, 1, Len(a))

\* call number c has run its last command
StagesOver(c) == c < Len(calls) \/ pc \in {"cleanup", "returned", "loop", "exit"}

\* some command of call number c has exited non-zero
StageFailed(c) ==
    \E n \in 1..Len(executed) :
        executed[n].call = c /\ executed[n].status \notin {0, Running}

PathsOf(fs) == { f.path : f \in fs }

\* every command of call number c has exited with status 0
AllZero(c) == \A n \in 1..Len(ExecOf(c)) : ExecOf(c)[n].status = 0

LastIndexOf(s, c) ==
    LET hits == { n \in 1..Len(s) : s[n] = c }
    IN IF hits = {} THEN 0 ELSE CHOOSE n \in hits : \A m \in hits : m <= n

\* the last '/'-separated segment of a path
BaseName(path) == SubSeq(path, LastIndexOf(path, "/") + 1, Len(path))

\* the base name without its final extension, a name without a '.' being
\* its own stem
Stem(path) ==
    LET base == BaseName(path)
        dot == LastIndexOf(base, ".")
    IN IF dot = 0 THEN base ELSE SubSeq(base, 1, dot - 1)

\* a path that can name the input file: not the root, not the working
\* directory, which are directories
ValidInput(path) == BaseName(path) # <<>> /\ path # Cwd

HasExtension(path) == LastIndexOf(BaseName(path), ".") > 0

\* a Z score in decimal, zero-padded to two digits
TwoDigits(n) == IF n < 100 THEN <<Digit(n \div 10), Digit(n % 10)>> ELSE Str(n)

ExpectedName(path, zScore) ==
    ThresholdsPrefix \o Stem(path) \o ZTag \o TwoDigits(zScore) \o TxtSuffix

\* the absolute paths the file-name specification reaches
AbsNamePaths == { abspath(q) : q \in NamePaths }

\* ------------------------------------------------------------------ claims

\* C1: when a run has finished, its workspace directory has been deleted if
\* and only if all three stage commands exited with status 0, and after a
\* non-zero exit the workspace and the files in it still exist.
C1_DeletedIffAllSucceeded ==
    pc = "returned" =>
        /\ (tempDir \notin dirs) <=> AllZero(Len(calls))
        /\ ~AllZero(Len(calls)) =>
              /\ tempDir \in dirs
              /\ {meanSd, tempDir \o RErrorName} \subseteq PathsOf(files)

\* C1, the half of it the code keeps: a workspace is deleted only if all
\* three commands exited 0, and is retained with its files otherwise.
C1_DeletedOnlyIfAllSucceeded ==
    pc = "returned" =>
        /\ (tempDir \notin dirs) => AllZero(Len(calls))
        /\ ~AllZero(Len(calls)) =>
              /\ tempDir \in dirs
              /\ {meanSd, tempDir \o RErrorName} \subseteq PathsOf(files)

\* C2: in every run the three stages are executed exactly once each, in the
\* order extraction, fitting, threshold, whatever the earlier statuses: the
\* commands a run has executed are always a prefix of the three, and all
\* three once the run is past its last stage.
C2_StagesOnceInOrder ==
    \A c \in 1..Len(calls) :
        /\ IsPrefix(Progs(ExecOf(c)), StageOrder)
        /\ (StagesOver(c) /\ ~(c = Len(calls) /\ pc = "raised"))
             => Progs(ExecOf(c)) = StageOrder

C2_Witness ==
    /\ pc = "returned"
    /\ Len(ExecOf(Len(calls))) = 3
    /\ ExecOf(Len(calls))[1].status # 0
    /\ ExecOf(Len(calls))[2].status # 0

\* C3: the run loop calls run once for each Z score zstart, zstart+1, ...,
\* in increasing order, never more than ztotal times and exactly ztotal
\* times when the loop has ended, each time with the same input path, output
\* directory and verbose flag.
C3_RunRange ==
    /\ Len(calls) <= args.ztotal
    /\ \A n \in 1..Len(calls) :
          /\ calls[n].zScore = args.zstart + n - 1
          /\ calls[n].egtPath = calls[1].egtPath
          /\ calls[n].outDir = calls[1].outDir
          /\ calls[n].verbose = args.verbose
    /\ pc = "exit" => Len(calls) = args.ztotal

C3_Witness ==
    /\ pc = "exit"
    /\ args.zstart >= 2
    /\ Len(calls) >= 2
    /\ calls[2].zScore = args.zstart + 1

\* C4: a non-zero exit of a stage command never aborts the run loop: an
\* exception never leaves a call that has executed a command, and a loop
\* that has ended has made all ztotal calls with all three stages each,
\* whichever of them had a failed stage.
C4_StageFailureContained ==
    /\ pc \in {"raised", "fatal"} => ExecOf(Len(calls)) = <<>>
    /\ \A c \in 1..Len(calls) :
          (StageFailed(c) /\ StagesOver(c)) =>
             /\ exception = "none" \/ c < Len(calls)
             /\ Len(ExecOf(c)) = 3
    /\ pc = "exit" =>
          /\ Len(calls) = args.ztotal
          /\ \A c \in 1..Len(calls) : Len(ExecOf(c)) = 3

C4_Witness ==
    /\ pc = "exit"
    /\ Len(calls) >= 2
    /\ StageFailed(1)
    /\ Len(ExecOf(2)) = 3

\* C5: for every valid input path and Z score >= 1 the file name is
\* 'thresholds_' + stem + '_z' + ZZ + '.txt', stem being the last segment of
\* the path without its final extension, ZZ the Z score zero-padded to two
\* digits.
C5_NameFormat ==
    (pc = "named" /\ ValidInput(egt)) =>
        thresholds = ExpectedName(egt, z)

\* C5 for the file names that have an extension, where the code keeps it.
C5_NameFormatWithExtension ==
    (pc = "named" /\ ValidInput(egt) /\ HasExtension(egt)) =>
        thresholds = ExpectedName(egt, z)

\* C6: two valid inputs that differ in the stem of the file name or in the
\* Z score never get the same file name.
C6_CollisionFree ==
    (pc = "named" /\ ValidInput(egt)) =>
        \A p \in AbsNamePaths, n \in NameZs :
            (ValidInput(p) /\ (Stem(p) # Stem(egt) \/ n # z))
                => thresholdFileName(p, n) # thresholds

\* C6 for the file names that have an extension, where the code keeps it.
C6_CollisionFreeWithExtension ==
    (pc = "named" /\ ValidInput(egt) /\ HasExtension(egt)) =>
        \A p \in AbsNamePaths, n \in NameZs :
            (ValidInput(p) /\ HasExtension(p) /\ (Stem(p) # Stem(egt) \/ n # z))
                => thresholdFileName(p, n) # thresholds

\* C7: run returns a boolean to its caller, true exactly when all three
\* stage commands exited with status 0.
C7_ReturnsSuccess ==
    pc = "returned" =>
        ret = IF AllZero(Len(calls)) THEN "True" ELSE "False"

\* C7 as the code has it: run returns None in every case; the overall
\* success it computes, commandsOK, is true exactly when all three stage
\* commands exited with status 0.
C7_ReturnsNone ==
    pc = "returned" =>
        /\ ret = "None"
        /\ commandsOK <=> AllZero(Len(calls))

C7_Witness ==
    /\ pc = "returned"
    /\ ~commandsOK
    /\ ExecOf(Len(calls))[3].status = 0

\* what validate_args rejects
InvalidArgs ==
    \/ ~env.egtReadable
    \/ env.outState # "ok"
    \/ args.zstart < 1
    \/ args.ztotal < 1

\* C8: with an unreadable input file, an output path that is missing, not a
\* directory or not writable, or zstart < 1 or ztotal < 1, the process gets
\* no further than the fatal error of validation: no call of run, no
\* workspace, no stage command.
C8_ValidationFirst ==
    InvalidArgs =>
        /\ pc \in {"main", "fatal"}
        /\ pc = "fatal" => exception \in {"OSError", "ValueError"}
        /\ calls = <<>> /\ dirs = {} /\ files = {} /\ executed = <<>>

C8_Witness ==
    /\ pc = "fatal"
    /\ exception = "ValueError"
    /\ args.zstart = 0
    /\ args.ztotal >= 1

C10_MkdtempFailure ==
    (exception = "OSError" /\ calls # <<>>) =>
        /\ pc = "raised"
        /\ tempDir = NoPath
        /\ ExecOf(Len(calls)) = <<>>
        /\ ~ENABLED Next

C10_Witness ==
    /\ pc = "raised"
    /\ exception = "OSError"
    /\ Len(calls) = 2
    /\ Len(ExecOf(1)) = 3

\* the lines on stderr that name a temporary directory
PathReports == SelectSeq(stderr, LAMBDA l : l.msg = "Writing temporary files to")

\* the call in progress has named its temporary directory on stderr
PathReported ==
    /\ Len(PathReports) = Len(calls)
    /\ PathReports[Len(calls)].info = tempDir

\* the call in progress has ended with its temporary directory retained
\* after a failed stage
RetainedAtReturn ==
    pc = "returned" /\ tempDir \in dirs /\ StageFailed(Len(calls))

\* C11: whenever a run ends with its workspace retained after a failed
\* stage, the path of the workspace has been written to stderr during that
\* run, with verbose set or not.
C11_RetainedPathReported == RetainedAtReturn => PathReported

\* C11, as the code has it: the path of a retained workspace has been
\* written to stderr during the run when verbose is set, and nothing at all
\* has been written when it is not.
C11_RetainedPathReportedIfVerbose ==
    RetainedAtReturn =>
        IF Frame.verbose THEN PathReported ELSE stderr = <<>>

C11_Witness ==
    /\ RetainedAtReturn
    /\ Frame.verbose
    /\ Len(calls) = 2
    /\ PathReported

\* where the threshold file of call number c is to be
ArtifactPath(c) ==
    calls[c].outDir \o <<"/">> \o thresholdFileName(calls[c].egtPath, calls[c].zScore)

\* C12, for paths the shell leaves in one word: once the three commands of
\* a call have exited 0, the threshold file of that call is in the output
\* directory and in no temporary directory, and stays there as that call
\* wrote it through the deletion of the workspace and every later call.
C12_ArtifactKeptWhenShellSafe ==
    \A c \in 1..Len(calls) :
        (Len(ExecOf(c)) = 3 /\ AllZero(c)) =>
            /\ [path |-> ArtifactPath(c), by |-> c] \in files
            /\ IsUnder(ArtifactPath(c), calls[c].outDir)
            /\ \A d \in DirNames : ~IsUnder(ArtifactPath(c), d)

\* the commands that have been started and have not exited
RunningNow == { n \in 1..Len(executed) : executed[n].status = Running }

\* the "Finished." lines of stderr, one for each call that has returned
FinishedLines == SelectSeq(stderr, LAMBDA l : l.msg = "Finished.")

\* C13: execution is sequential: at most one command is running, and it is
\* the last one started; a command of a run is started only when the
\* commands before it have exited; the cleanup is reached only with the
\* three commands exited; and a call of run is made only when every earlier
\* call has run its three commands and returned.
C13_Sequential ==
    /\ Cardinality(RunningNow) <= 1
    /\ RunningNow \subseteq {Len(executed)}
    /\ RunningNow # {} <=> pc = "wait"
    /\ pc = "stage" => Len(ExecOf(Len(calls))) = k - 1
    /\ pc \in {"cleanup", "returned"} => Len(ExecOf(Len(calls))) = 3
    /\ \A c \in 1..(Len(calls) - 1) :
          /\ Len(ExecOf(c)) = 3
          /\ \A n \in 1..Len(executed) :
                executed[n].call = c => n \in (3 * c - 2)..(3 * c)
    /\ Len(calls) - 1 <= i
    /\ args.verbose => Len(FinishedLines) >= Len(calls) - 1

C13_Witness ==
    /\ pc = "wait"
    /\ Len(calls) = 2
    /\ Len(executed) = 5
    /\ RunningNow = {5}

\* the files of fs inside directory d
UnderDir(fs, d) == { f \in fs : IsUnder(f.path, d) }

\* C15: workspaces are isolated: the directory a run acquires did not exist
\* before; every step leaves each directory other than the workspace of the
\* run in progress in place with its files as they were; and the files a
\* run writes are inside its own workspace, but for the threshold file.
C15_WorkspacesIsolated ==
    [][ /\ (tempDir' # tempDir /\ tempDir' # NoPath) =>
              /\ tempDir' \notin dirs
              /\ UnderDir(files, tempDir') = {}
        /\ \A d \in dirs \ {tempDir} :
              /\ d \in dirs'
              /\ UnderDir(files', d) = UnderDir(files, d)
        /\ \A f \in files' \ files :
              /\ f.by = Len(calls)
              /\ IsUnder(f.path, tempDir) \/ f.path = out \o <<"/">> \o thresholds
      ]_vars

C15_Witness ==
    /\ pc = "returned"
    /\ Len(calls) = 2
    /\ Cardinality(dirs) = 2
    /\ \E f \in files : f.by = 1 /\ \E d \in dirs \ {tempDir} : IsUnder(f.path, d)
    /\ \E f \in files : f.by = 2 /\ IsUnder(f.path, tempDir)

\* C16: when the threshold command of a run exits non-zero, and no file of
\* the name was in the output directory before the run, none is there after
\* the run.
C16_AbsentOnFailure ==
    ( /\ pc = "returned"
      /\ ExecOf(Len(calls))[3].status # 0
      /\ \A f \in files : f.path = ArtifactPath(Len(calls)) => f.by = Len(calls) )
    => ArtifactPath(Len(calls)) \notin PathsOf(files)

\* mkdtemp has raised in a call of run
MkdtempFailed == exception = "OSError" /\ calls # <<>>

\* C19: an error of mkdtemp in a run leaves the loop: no later call of run
\* is made and nothing more is done, the failing call has executed no
\* command and written no file, and the step that raises leaves the
\* directories, the files and the commands of the earlier runs as they were.
C19_ErrorLeavesLoop ==
    /\ [](MkdtempFailed =>
            /\ pc = "raised"
            /\ Len(calls) <= args.ztotal
            /\ calls[Len(calls)].zScore = z
            /\ \A f \in files : f.by < Len(calls)
            /\ \A n \in 1..Len(executed) : executed[n].call < Len(calls)
            /\ ~ENABLED Next)
    /\ [][MkdtempFailed' => UNCHANGED <<calls, dirs, files, executed>>]_vars

C19_Witness ==
    /\ pc = "raised"
    /\ MkdtempFailed
    /\ Len(calls) < args.ztotal
    /\ z + 1 < args.zstart + args.ztotal

\* ------------------------------------------- the command lines, as text
\* run, line 51: scriptDir = os.path.abspath(sys.path[0])
ScriptDir == <<"/", "z">>
\* __init__, line 41: self.rScript, the value of rscript in config.ini
RScript == <<"R">>

FindMeanSDText == <<"/", "f", "i", "n", "d", "M", "e", "a", "n", "S", "D", ".", "p", "y">>
FindBetasText == <<"/", "f", "i", "n", "d", "B", "e", "t", "a", "s", ".", "r">>
FindThresholdsText == <<"/", "f", "i", "n", "d", "T", "h", "r", "e", "s", "h", "o", "l", "d", "s", ".", "p", "y">>
Space == <<" ">>
Quote == <<"\"">>
OptE == <<"-", "E">>
OptB == <<"-", "B">>
OptZ == <<"-", "Z">>
One == <<"1">>
Bash == <<"b", "a", "s", "h">>
DashC == <<"-", "c">>
ToStdout == <<" ", ">", " ">>
ToStderr == <<" ", "2", ">", " ">>

\* run, lines 60-65: the three command lines, built by concatenation
CmdText(egtPath, zScore, outDir, tmp, msd, bts, thr) ==
    << ScriptDir \o FindMeanSDText \o Space \o OptE \o Space \o egtPath
          \o ToStdout \o msd,
       Bash \o Space \o DashC \o Space \o Quote \o RScript \o Space
          \o ScriptDir \o FindBetasText \o Space \o msd \o Space \o bts
          \o Space \o One \o Space \o Quote \o ToStderr \o tmp \o RErrorName,
       ScriptDir \o FindThresholdsText \o Space \o OptB \o Space \o bts
          \o Space \o OptE \o Space \o egtPath \o Space \o OptZ \o Space
          \o Str(zScore) \o ToStdout \o outDir \o <<"/">> \o thr >>

\* sh ends a word: the target of the redirection that waits for one, or
\* else one more argument
EndWord(acc) ==
    IF ~acc.has THEN acc
    ELSE IF acc.redir = 1
         THEN [acc EXCEPT !.stdout = acc.cur, !.redir = 0, !.cur = <<>>, !.has = FALSE]
    ELSE IF acc.redir = 2
         THEN [acc EXCEPT !.stderr = acc.cur, !.redir = 0, !.cur = <<>>, !.has = FALSE]
    ELSE [acc EXCEPT !.argv = Append(acc.argv, acc.cur), !.cur = <<>>, !.has = FALSE]

\* sh reads one character: double quotes keep blanks in the word, a blank
\* ends the word, '>' or '2>' makes the next word the target of stdout or
\* stderr
ShChar(acc, c) ==
    IF acc.inq
    THEN IF c = "\"" THEN [acc EXCEPT !.inq = FALSE]
         ELSE [acc EXCEPT !.cur = Append(acc.cur, c)]
    ELSE IF c = "\"" THEN [acc EXCEPT !.inq = TRUE, !.has = TRUE]
    ELSE IF c = " " THEN EndWord(acc)
    ELSE IF c = ">"
         THEN IF acc.has /\ acc.cur = <<"2">>
              THEN [acc EXCEPT !.cur = <<>>, !.has = FALSE, !.redir = 2]
              ELSE [EndWord(acc) EXCEPT !.redir = 1]
    ELSE [acc EXCEPT !.cur = Append(acc.cur, c), !.has = TRUE]

\* the characters of s from the n-th on, read one by one; the test of acc
\* never holds, it has each step computed before the next one
RECURSIVE ShScan(_, _, _)
ShScan(s, n, acc) ==
    IF n > Len(s) \/ acc.redir > 2 THEN EndWord(acc)
    ELSE ShScan(s, n + 1, ShChar(acc, s[n]))

\* os.system, line 69: /bin/sh -c splits the command line into the
\* arguments and the redirections of one simple command
ShParse(s) ==
    LET acc == ShScan(s, 1, [argv |-> <<>>, cur |-> <<>>, has |-> FALSE,
                             inq |-> FALSE, redir |-> 0,
                             stdout |-> NoPath, stderr |-> NoPath])
    IN [argv |-> acc.argv, stdout |-> acc.stdout, stderr |-> acc.stderr]

\* the program that runs in the end: bash -c "..." splits its third
\* argument again, with the redirections of the outer command in force
ShExec(s) ==
    LET outer == ShParse(s)
    IN IF Len(outer.argv) >= 3 /\ outer.argv[1] = Bash /\ outer.argv[2] = DashC
       THEN LET inner == ShParse(outer.argv[3])
            IN [argv |-> inner.argv,
                stdout |-> IF inner.stdout # NoPath THEN inner.stdout ELSE outer.stdout,
                stderr |-> IF inner.stderr # NoPath THEN inner.stderr ELSE outer.stderr]
       ELSE outer

\* values of --egt and --out, with and without a blank in them
ShellEgtArgs == { <<"s", ".", "e">>, <<"a", " ", "b", ".", "e">> }
ShellOutArgs == { <<"o">>, <<"o", " ", "p">> }

\* one run, with arguments that pass validate_args
InitShell ==
    /\ args \in [egt : ShellEgtArgs, out : ShellOutArgs, zstart : 1..MaxZStart,
                 ztotal : {1}, verbose : {FALSE}]
    /\ env = [egtReadable |-> TRUE, outState |-> "ok", configOK |-> TRUE]
    /\ pc = "main"
    /\ InitRest
    /\ InitAlone

\* run, lines 51-66, with the command lines as the text the code builds
ShellMkdtemp ==
    /\ pc = "run"
    /\ \E d \in FreshNames(dirs) :
          /\ tempDir' = d
          /\ dirs' = dirs \cup {d}
          /\ meanSd' = d \o MeanSdName
          /\ betas' = d \o BetasName
          /\ thresholds' = thresholdFileName(Frame.egtPath, Frame.zScore)
          /\ cmdList' = CmdText(Frame.egtPath, Frame.zScore, Frame.outDir, d,
                                d \o MeanSdName, d \o BetasName,
                                thresholdFileName(Frame.egtPath, Frame.zScore))
    /\ commandsOK' = TRUE
    /\ k' = 1
    /\ pc' = "sh_stage"
    /\ UNCHANGED <<args, env, exception, mainLocals, calls, status, ret,
                   files, executed, stderr>>

\* the files sh creates for the redirections of a command
Redirected(fs, cmd, by) ==
    LET one == IF cmd.stdout # NoPath THEN Written(fs, cmd.stdout, by) ELSE fs
    IN IF cmd.stderr # NoPath THEN Written(one, cmd.stderr, by) ELSE one

\* run, lines 67-72: a command line is handed to os.system, which has sh
\* split it, open its redirections and run the program to its exit
ShellStage ==
    /\ pc = "sh_stage"
    /\ \E st \in Statuses :
          /\ status' = st
          /\ executed' = Append(executed, [call |-> Len(calls),
                                           cmd |-> ShExec(cmdList[k]),
                                           status |-> st])
          /\ files' = Redirected(files, ShExec(cmdList[k]), Len(calls))
          /\ commandsOK' = NextCommandsOK(commandsOK, st)
    /\ k' = k + 1
    /\ pc' = IF k < Len(cmdList) THEN "sh_stage" ELSE "sh_done"
    /\ UNCHANGED <<args, env, exception, mainLocals, calls, tempDir, meanSd,
                   betas, thresholds, cmdList, ret, dirs, stderr>>

NextShell ==
    \/ ValidateArgs /\ UNCHANGED twin
    \/ Construct /\ UNCHANGED twin
    \/ LoopIter /\ UNCHANGED twin
    \/ ShellMkdtemp /\ UNCHANGED twin
    \/ ShellStage /\ UNCHANGED twin

ShellSpec == InitShell /\ [][NextShell]_vars

\* the value that follows option flag in argv, or no path
Opt(argv, flag) ==
    LET at == { n \in 1..(Len(argv) - 1) : argv[n] = flag }
    IN IF at = {} THEN NoPath
       ELSE argv[(CHOOSE n \in at : \A m \in at : n <= m) + 1]

\* no blank in the path: sh leaves it in one word
ShellSafe(path) == \A n \in 1..Len(path) : path[n] # " "

\* the arguments the record of a command of CmdList stands for
ArgvOf(rec) ==
    IF rec.prog = "findMeanSD.py"
    THEN <<ScriptDir \o FindMeanSDText, OptE, rec.reads[1]>>
    ELSE IF rec.prog = "findBetas.r"
    THEN <<RScript, ScriptDir \o FindBetasText, rec.reads[1], rec.outArg, One>>
    ELSE <<ScriptDir \o FindThresholdsText, OptB, rec.reads[1], OptE,
           rec.reads[2], OptZ, rec.Z>>

\* C14: the stages of a run are wired through the run's own files: the
\* fitting command reads the mean/SD file the extraction command writes in
\* the workspace, the threshold command reads the beta file the fitting
\* command is told to write in the workspace, it is given the cluster file
\* the extraction command is given and the Z score of the run, and its
\* output goes to outDir/thresholdFileName(egtPath, zScore).
C14_StagesWired ==
    pc = "sh_done" =>
        LET e1 == executed[1].cmd
            e2 == executed[2].cmd
            e3 == executed[3].cmd
        IN /\ e1.stdout = meanSd /\ IsUnder(meanSd, tempDir)
           /\ Len(e2.argv) = 5
           /\ e2.argv[3] = e1.stdout
           /\ e2.argv[4] = betas /\ IsUnder(betas, tempDir)
           /\ Opt(e3.argv, OptB) = e2.argv[4]
           /\ Opt(e3.argv, OptE) = Opt(e1.argv, OptE)
           /\ Opt(e3.argv, OptZ) = Str(Frame.zScore)
           /\ e3.stdout = Frame.outDir \o <<"/">>
                            \o thresholdFileName(Frame.egtPath, Frame.zScore)

\* C14, for paths without a blank: the command the shell runs is the one
\* the record of CmdList describes, argument for argument and redirection
\* for redirection.
C14_StagesWiredWhenShellSafe ==
    (pc = "sh_done" /\ ShellSafe(egt) /\ ShellSafe(out)) =>
        /\ C14_StagesWired
        /\ \A n \in 1..3 :
              LET rec == CmdList(Frame.egtPath, Frame.zScore, Frame.outDir, tempDir,
                                 meanSd, betas, thresholds)[n]
                  cmd == executed[n].cmd
              IN /\ cmd.argv = ArgvOf(rec)
                 /\ cmd.stdout = rec.stdout
                 /\ cmd.stderr = rec.stderr

\* C12: after a run whose three commands exited 0, the file named
\* thresholdFileName(egtPath, zScore) is in the output directory.
C12_ArtifactKept ==
    (pc = "sh_done" /\ AllZero(1)) =>
        /\ ArtifactPath(1) \in PathsOf(files)
        /\ IsUnder(ArtifactPath(1), Frame.outDir)

\* ------------------------------------------------------------ termination
\* arguments and environment that pass validation and construction
InitFair ==
    /\ args \in [egt : {CHOOSE p \in EgtArgs : TRUE}, out : {OutArg},
                 zstart : {1}, ztotal : 1..MaxZTotal, verbose : BOOLEAN]
    /\ env = [egtReadable |-> TRUE, outState |-> "ok", configOK |-> TRUE]
    /\ pc = "main"
    /\ InitRest
    /\ InitAlone

\* the steps of the interpreter, all but the exit of the command that
\* os.system waits for
ProgramStep ==
    \/ ValidateArgs
    \/ Construct
    \/ LoopIter
    \/ Mkdtemp
    \/ StageStart
    \/ Cleanup
    \/ LoopNext

\* the interpreter always takes its next step; whether a command exits is
\* up to the command
FairSpec == InitFair /\ [][Next]_vars /\ WF_vars(ProgramStep /\ UNCHANGED twin)

\* every command os.system waits for exits in the end
EveryCommandExits == [](pc = "wait" => <>(pc # "wait"))

\* C17: with every stage command exited, the process stops only at the end
\* of the loop, every run done, after exactly 3 * ztotal stage commands.
C17_TerminatesNormally ==
    (RunningNow = {} /\ ~ENABLED Next) =>
        (pc = "exit" /\ Len(executed) = 3 * args.ztotal)

\* C17, as the code has it: if every stage command exits in the end, the
\* process stops, at the end of the loop or with the error of a mkdtemp;
\* a loop that has ended has made ztotal calls and executed exactly
\* 3 * ztotal commands, all exited, and a mkdtemp error follows three
\* commands for each earlier call; and while a command has not exited the
\* only step there is is its exit, so no other command and no other call
\* is started.
C17_Terminates ==
    /\ EveryCommandExits => <>(pc \in {"exit", "raised"})
    /\ [](pc = "exit" =>
            /\ Len(calls) = args.ztotal
            /\ Len(executed) = 3 * args.ztotal
            /\ RunningNow = {})
    /\ [](pc = "raised" => Len(executed) = 3 * (Len(calls) - 1))
    /\ [][pc = "wait" =>
            /\ executed[Len(executed)].status = Running
            /\ executed'[Len(executed)].status # Running
            /\ Len(executed') = Len(executed)
            /\ calls' = calls
            /\ pc' # "wait"]_vars

C17_Witness ==
    /\ pc = "exit"
    /\ args.ztotal = 2
    /\ Len(executed) = 6
    /\ \E n \in 1..6 : executed[n].status # 0

\* ------------------------------------------------ two executions compared
\* the calls of run in each of the two executions
MaxTwinTotal == 1

\* what an execution does other than write to stderr: its position, the
\* commands it has handed to os.system with their statuses, the files and
\* the directories there are, and what run has decided
Obs ==
    [pc |-> pc, exception |-> exception, z |-> z, ncalls |-> Len(calls),
     tempDir |-> tempDir, commandsOK |-> commandsOK, status |-> status,
     ret |-> ret, dirs |-> dirs, files |-> files, executed |-> executed]

\* a step of the program, whichever
Step == ProgramStep \/ StageExit

\* the first execution runs, with --verbose given or not
InitTwin ==
    /\ args \in [egt : {CHOOSE p \in EgtArgs : TRUE}, out : {OutArg},
                 zstart : {1}, ztotal : 1..MaxTwinTotal, verbose : BOOLEAN]
    /\ env = [egtReadable |-> TRUE, outState |-> "ok", configOK |-> TRUE]
    /\ pc = "main"
    /\ InitRest
    /\ phase = 1
    /\ log = <<>>

\* a step of the first execution, and what it did is kept
TwinFirst ==
    /\ phase = 1
    /\ Step
    /\ log' = Append(log, Obs')
    /\ phase' = phase

\* the first execution has stopped: the second starts from the same
\* arguments but for verbose, on the file system as it was
TwinSwitch ==
    /\ phase = 1
    /\ ~ENABLED Step
    /\ phase' = 2
    /\ args' = [args EXCEPT !.verbose = ~args.verbose]
    /\ pc' = "main"
    /\ exception' = "none"
    /\ egt' = NoPath /\ out' = NoPath /\ z' = 0 /\ i' = 0
    /\ calls' = <<>>
    /\ tempDir' = NoPath /\ meanSd' = NoPath /\ betas' = NoPath /\ thresholds' = NoPath
    /\ cmdList' = <<>> /\ commandsOK' = TRUE /\ k' = 0 /\ status' = 0
    /\ ret' = "unset"
    /\ dirs' = {} /\ files' = {} /\ executed' = <<>> /\ stderr' = <<>>
    /\ UNCHANGED <<env, log>>

\* a step of the second execution in which mkdtemp, the commands and rm do
\* what they did at this step of the first
TwinSecond ==
    /\ phase = 2
    /\ log # <<>>
    /\ Step
    /\ Obs' = Head(log)
    /\ log' = Tail(log)
    /\ phase' = phase

NextTwin ==
    \/ TwinFirst
    \/ TwinSwitch
    \/ TwinSecond

TwinSpec == InitTwin /\ [][NextTwin]_vars

\* C18: verbose changes nothing but stderr: an execution that differs from
\* another in verbose alone, with the same exit statuses and the same
\* outcomes of mkdtemp and rm, goes through the same steps with the same
\* commands executed, the same files and the same directories kept or
\* deleted, and stops where the other stopped; and without verbose nothing
\* is ever written to stderr.
C18_VerboseOnlyDiagnostics ==
    /\ ~args.verbose => stderr = <<>>
    /\ phase = 2 =>
          IF log # <<>> THEN ENABLED TwinSecond ELSE ~ENABLED Step

C18_Witness ==
    /\ phase = 2
    /\ log = <<>>
    /\ pc = "exit"
    /\ ~args.verbose
    /\ Len(executed) = 3
    /\ StageFailed(1)
    /\ Cardinality(dirs) = 1
====
